---------------------------- MODULE Spec2Model ----------------------------
(***************************************************************************)
(* Model of the transcript-to-QA structuring pipeline of audio_text_fun:   *)
(* the sanitizer, the single-pair extractor and the multi-pair segmenter   *)
(* of src/qwen_llm.py, and the assisted extraction of the Q&A tab of       *)
(* src/app.py.                                                             *)
(*                                                                         *)
(* A text is a sequence of characters; a character is a one-token string.  *)
(* Characters outside ASCII are written as tokens:                         *)
(*   "Q"  the question-marker U+95EE,  "A"  the answer-marker U+7B54,      *)
(*   "FC" the full-width colon U+FF1A, "FM" the full-width comma U+FF0C,   *)
(*   "FP" the ideographic full stop U+3002, "FS" the ideographic space     *)
(*   U+3000.                                                               *)
(***************************************************************************)
EXTENDS Integers, Sequences, FiniteSets, TLC

VARIABLES
    kind,           \* which entry point the run exercises
    text,           \* the input text of the pure functions
    units,          \* how a unit-built input text was put together
    sanPc, once, twice,         \* sanitizer applied once and twice
    segDone, pairs,             \* extract_qa_pairs_from_llm_result(text)
    singleDone, single,         \* split_text_to_qa_pairs(text)
    pc,             \* position inside the button handler of qa_split_tab
    session,        \* st.session_state: the keys qa_pairs and raw_llm_output
    stream,         \* state of the response stream of the current attempt
    chunks,         \* chunks the response stream has yielded, in order
    placeholder,    \* text write_stream has accumulated and shows in col2
    message,        \* st.warning / st.error shown by the handler
    segCalls,       \* calls of the segmenter made by the current attempt
    genCalls,       \* generation calls issued by the current request
    earlierResult   \* an attempt before the current one stored a result

vars == <<kind, text, units, sanPc, once, twice, segDone, pairs, singleDone,
          single, pc, session, stream, chunks, placeholder, message, segCalls,
          genCalls, earlierResult>>

(***************************************************************************)
(* Bounds of the model.                                                    *)
(***************************************************************************)
MaxSanPieces == 5
MaxPieces == 4
MaxUnits == 2
MaxChunks == 4

(***************************************************************************)
(* Characters.                                                             *)
(***************************************************************************)
QMARK == "Q"
AMARK == "A"
NL == "\n"
CR == "\r"
COLONS == {":", "FC"}
THINK_OPEN == <<"<", "t", "h", "i", "n", "k", ">">>
THINK_CLOSE == <<"<", "/", "t", "h", "i", "n", "k", ">">>
\* line boundaries of str.splitlines that the inputs use
LINE_BREAKS == {NL, CR}
\* characters str.strip() removes
WHITESPACE == {" ", NL, CR, "FS"}
\* the argument of strip in split_text_to_qa_pairs
TRIM_SET == {"FC", ":", "FM", ",", "FP", " ", "FS", NL}

(***************************************************************************)
(* String helpers: str.find, str.strip, str.splitlines, str.join.          *)
(***************************************************************************)
Min(S) == CHOOSE x \in S : \A y \in S : x <= y

\* pat occurs in s at position i (1-based)
MatchAt(s, pat, i) ==
    /\ i >= 1
    /\ i + Len(pat) - 1 <= Len(s)
    /\ \A k \in 1..Len(pat) : s[i + k - 1] = pat[k]

\* first position >= from where pat occurs in s, 0 when there is none
FindFrom(s, pat, from) ==
    LET hits == {i \in from..Len(s) : MatchAt(s, pat, i)}
    IN  IF hits = {} THEN 0 ELSE Min(hits)

\* s[from..] as Python slices it
Tail_(s, from) == SubSeq(s, from, Len(s))

\* str.strip(chars)
Strip(s, chars) ==
    LET keep == {i \in 1..Len(s) : s[i] \notin chars}
    IN  IF keep = {} THEN <<>>
        ELSE SubSeq(s, Min(keep), CHOOSE x \in keep : \A y \in keep : y <= x)

RECURSIVE SplitLines(_)
\* the lines of s; empty lines are kept here and dropped by the caller
SplitLines(s) ==
    LET brk == {i \in 1..Len(s) : s[i] \in LINE_BREAKS}
    IN  IF brk = {} THEN <<s>>
        ELSE <<SubSeq(s, 1, Min(brk) - 1)>> \o SplitLines(Tail_(s, Min(brk) + 1))

RECURSIVE JoinNL(_)
\* "\n".join(lines)
JoinNL(lines) ==
    IF lines = <<>> THEN <<>>
    ELSE IF Len(lines) = 1 THEN lines[1]
    ELSE lines[1] \o <<NL>> \o JoinNL(Tail(lines))

RECURSIVE Concat(_)
\* "".join(parts)
Concat(parts) ==
    IF parts = <<>> THEN <<>> ELSE parts[1] \o Concat(Tail(parts))

Contains(s, pat) == FindFrom(s, pat, 1) # 0

(***************************************************************************)
(* Sanitizer.                                                              *)
(***************************************************************************)
RECURSIVE remove_think_blocks(_)
\* re.sub(r"<think>.*?</think>", "", text, flags=re.DOTALL): the leftmost
\* opening marker that has a closing marker after it, up to the nearest
\* closing marker, is dropped, and the scan goes on after it.
remove_think_blocks(t) ==
    LET i == FindFrom(t, THINK_OPEN, 1)
        j == IF i = 0 THEN 0 ELSE FindFrom(t, THINK_CLOSE, i + Len(THINK_OPEN))
    IN  IF i = 0 \/ j = 0 THEN t
        ELSE SubSeq(t, 1, i - 1)
             \o remove_think_blocks(Tail_(t, j + Len(THINK_CLOSE)))

clean_blank_lines(t) ==
    LET lines == SplitLines(t)
        stripped == [k \in 1..Len(lines) |-> Strip(lines[k], WHITESPACE)]
    IN  JoinNL(SelectSeq(stripped, LAMBDA l : l # <<>>))

\* the first two steps of extract_qa_pairs_from_llm_result
sanitize(t) == clean_blank_lines(remove_think_blocks(t))


(***************************************************************************)
(* Multi-pair segmenter.                                                   *)
(***************************************************************************)
\* the question-marker followed by a colon stands at position i
QStartAt(t, i) ==
    /\ i >= 1
    /\ i + 1 <= Len(t)
    /\ t[i] = QMARK
    /\ t[i + 1] \in COLONS

\* "\n", the answer-marker and a colon stand at position k
AStartAt(t, k) ==
    /\ k >= 1
    /\ k + 2 <= Len(t)
    /\ t[k] = NL
    /\ t[k + 1] = AMARK
    /\ t[k + 2] \in COLONS

\* AnswerEndAt with the lookahead for the next unit left out
AnswerEndAt_EndOnly(t, e) ==
    \/ e = Len(t) + 1
    \/ e = Len(t) /\ t[e] = NL

\* AnswerEndAt with a lookahead that takes any line-start question-marker,
\* with or without a colon, for the next unit
AnswerEndAt_BareMarker(t, e) ==
    \/ e = Len(t) + 1
    \/ e = Len(t) /\ t[e] = NL
    \/ /\ e + 1 <= Len(t)
       /\ t[e] = NL
       /\ t[e + 1] = QMARK

\* the lookahead (?=\n<question-marker>[colon]|$) holds at position e; without
\* re.MULTILINE, $ holds at the end and before a final "\n"
AnswerEndAt(t, e) ==
    \/ e = Len(t) + 1
    \/ e = Len(t) /\ t[e] = NL
    \/ /\ e + 2 <= Len(t)
       /\ t[e] = NL
       /\ QStartAt(t, e + 1)

\* FirstAnswerMark with a group 1 that stops at the first newline ([^\n]*
\* for .*): the answer-marker has to start the very next line
FirstAnswerMark_NextLine(t, i) ==
    LET nls == {k \in (i + 2)..Len(t) : t[k] = NL}
    IN  IF nls = {} THEN 0
        ELSE IF AStartAt(t, Min(nls)) THEN Min(nls) ELSE 0

\* where group 1 of a match that starts at i ends: the nearest "\n<answer-
\* marker>[colon]" after the question-marker and its colon, 0 when none
FirstAnswerMark(t, i) ==
    LET ks == {k \in (i + 2)..Len(t) : AStartAt(t, k)}
    IN  IF ks = {} THEN 0 ELSE Min(ks)

RECURSIVE FindAllQA(_, _)
\* re.findall(pattern, text, re.DOTALL) from position pos on: the groups
\* (question, answer) of the non-overlapping matches, left to right
FindAllQA(t, pos) ==
    LET starts == {i \in pos..Len(t) :
                      QStartAt(t, i) /\ FirstAnswerMark(t, i) # 0}
    IN  IF starts = {} THEN <<>>
        ELSE LET i == Min(starts)
                 k == FirstAnswerMark(t, i)
                 e == Min({x \in (k + 3)..(Len(t) + 1) : AnswerEndAt(t, x)})
             IN  <<[question |-> SubSeq(t, i + 2, k - 1),
                    answer |-> SubSeq(t, k + 3, e - 1)]>>
                 \o FindAllQA(t, e)

\* the loop over the matches: both groups stripped, empty ones skipped
StripPairs(matches) ==
    LET stripped == [n \in 1..Len(matches) |->
                        [question |-> Strip(matches[n].question, WHITESPACE),
                         answer |-> Strip(matches[n].answer, WHITESPACE)]]
    IN  SelectSeq(stripped, LAMBDA m : m.question # <<>> /\ m.answer # <<>>)

extract_qa_pairs_from_llm_result(llm_result) ==
    StripPairs(FindAllQA(sanitize(llm_result), 1))

(***************************************************************************)
(* Single-pair extractor.                                                  *)
(***************************************************************************)
\* split_text_to_qa_pairs taking the last answer-marker (rfind for find)
split_text_to_qa_pairs_LastAnswer(t) ==
    LET first_q_pos == FindFrom(t, <<QMARK>>, 1)
        as == {i \in 1..Len(t) : t[i] = AMARK}
        first_a_pos == IF as = {} THEN 0 ELSE CHOOSE x \in as : \A y \in as : y <= x
        question == Strip(SubSeq(t, first_q_pos + 1, first_a_pos - 1), TRIM_SET)
        answer == Strip(Tail_(t, first_a_pos + 1), TRIM_SET)
    IN  IF first_q_pos = 0 \/ first_a_pos = 0 \/ first_a_pos <= first_q_pos
        THEN <<>>
        ELSE IF question # <<>> /\ answer # <<>>
             THEN <<[question |-> question, answer |-> answer]>>
             ELSE <<>>

\* split_text_to_qa_pairs ending the answer at the next question-marker
split_text_to_qa_pairs_CutAtNextQ(t) ==
    LET first_q_pos == FindFrom(t, <<QMARK>>, 1)
        first_a_pos == FindFrom(t, <<AMARK>>, 1)
        next_q_pos == FindFrom(t, <<QMARK>>, first_a_pos + 1)
        question == Strip(SubSeq(t, first_q_pos + 1, first_a_pos - 1), TRIM_SET)
        answer == Strip(SubSeq(t, first_a_pos + 1,
                               IF next_q_pos = 0 THEN Len(t) ELSE next_q_pos - 1),
                        TRIM_SET)
    IN  IF first_q_pos = 0 \/ first_a_pos = 0 \/ first_a_pos <= first_q_pos
        THEN <<>>
        ELSE IF question # <<>> /\ answer # <<>>
             THEN <<[question |-> question, answer |-> answer]>>
             ELSE <<>>

\* split_text_to_qa_pairs without the check that both spans are non-empty
split_text_to_qa_pairs_NoEmptyCheck(t) ==
    LET first_q_pos == FindFrom(t, <<QMARK>>, 1)
        first_a_pos == FindFrom(t, <<AMARK>>, 1)
        question == Strip(SubSeq(t, first_q_pos + 1, first_a_pos - 1), TRIM_SET)
        answer == Strip(Tail_(t, first_a_pos + 1), TRIM_SET)
    IN  IF first_q_pos = 0 \/ first_a_pos = 0 \/ first_a_pos <= first_q_pos
        THEN <<>>
        ELSE <<[question |-> question, answer |-> answer]>>

split_text_to_qa_pairs(t) ==
    LET first_q_pos == FindFrom(t, <<QMARK>>, 1)
        first_a_pos == FindFrom(t, <<AMARK>>, 1)
        question == Strip(SubSeq(t, first_q_pos + 1, first_a_pos - 1), TRIM_SET)
        answer == Strip(Tail_(t, first_a_pos + 1), TRIM_SET)
    IN  IF first_q_pos = 0 \/ first_a_pos = 0 \/ first_a_pos <= first_q_pos
        THEN <<>>
        ELSE IF question # <<>> /\ answer # <<>>
             THEN <<[question |-> question, answer |-> answer]>>
             ELSE <<>>


(***************************************************************************)
(* Inputs.                                                                 *)
(***************************************************************************)
\* the texts made by joining at most n pieces
PieceTexts(pieces, n) ==
    {Concat(ps) : ps \in UNION {[1..m -> pieces] : m \in 0..n}}

\* fragments of reasoning markers, whole and split, and text around them
SAN_PIECES ==
    {THINK_OPEN, THINK_CLOSE, <<"<", "t", "h", "i">>, <<"n", "k", ">">>,
     <<"x">>, <<" ">>, <<NL>>, <<CR>>}

SanInputs == PieceTexts(SAN_PIECES, MaxSanPieces)

\* fragments of question/answer units
QA_PIECES ==
    {<<QMARK, ":">>, <<QMARK>>, <<NL, AMARK, "FC">>, <<AMARK>>, <<NL>>,
     <<"x">>, <<" ">>, <<":">>}

\* what may follow a marker of a unit: a colon, or nothing
MARKER_TAILS == {<<":">>, <<"FC">>, <<>>}
\* question bodies: plain, with the answer-marker inside, with a second line
Q_BODIES == {<<"x">>, <<"x", AMARK, "y">>, <<"x", NL, QMARK, ":", "y">>}
\* answer bodies: plain, with the question-marker and a colon mid-line, with
\* a second line that starts with the bare question-marker, with a second
\* line that starts with the answer-marker and a colon
A_BODIES ==
    {<<"y">>, <<"y", QMARK, ":", "z">>, <<"y", NL, QMARK, "z">>,
     <<"y", NL, AMARK, ":", "z">>}

Units == [tail : MARKER_TAILS, q : Q_BODIES, a : A_BODIES]

UnitSeqs == UNION {[1..n -> Units] : n \in 0..MaxUnits}

RenderUnit(u) ==
    <<QMARK>> \o u.tail \o u.q \o <<NL, AMARK>> \o u.tail \o u.a

\* the units, one after the other, separated by newlines
RenderUnits(us) == JoinNL([n \in 1..Len(us) |-> RenderUnit(us[n])])

(***************************************************************************)
(* State.                                                                  *)
(***************************************************************************)
NoSession == [k \in {} |-> <<>>]

PureIdle ==
    /\ sanPc = "start"
    /\ once = <<>>
    /\ twice = <<>>
    /\ segDone = FALSE
    /\ pairs = <<>>
    /\ singleDone = FALSE
    /\ single = <<>>

TabIdle ==
    /\ pc = "idle"
    /\ session = NoSession
    /\ stream = "none"
    /\ chunks = <<>>
    /\ placeholder = <<>>
    /\ message = "none"
    /\ segCalls = <<>>
    /\ genCalls = 0
    /\ earlierResult = FALSE

tabVars == <<pc, session, stream, chunks, placeholder, message, segCalls,
             genCalls, earlierResult>>
pureVars == <<text, units, sanPc, once, twice, segDone, pairs, singleDone,
              single>>

(***************************************************************************)
(* The sanitizer applied to a text, and to its own result.                 *)
(***************************************************************************)
InitSan ==
    /\ kind = "sanitize"
    /\ text \in SanInputs
    /\ units = <<>>
    /\ PureIdle
    /\ TabIdle

SanitizeOnce ==
    /\ kind = "sanitize"
    /\ sanPc = "start"
    /\ once' = sanitize(text)
    /\ sanPc' = "once"
    /\ UNCHANGED <<kind, text, units, twice, segDone, pairs, singleDone,
                   single, tabVars>>

SanitizeTwice ==
    /\ kind = "sanitize"
    /\ sanPc = "once"
    /\ twice' = sanitize(once)
    /\ sanPc' = "twice"
    /\ UNCHANGED <<kind, text, units, once, segDone, pairs, singleDone,
                   single, tabVars>>

NextSan == SanitizeOnce \/ SanitizeTwice

SpecSan == InitSan /\ [][NextSan]_vars

(***************************************************************************)
(* The two parsers applied to a text.                                      *)
(***************************************************************************)
InitParse ==
    /\ \/ /\ kind = "pieces"
          /\ text \in PieceTexts(QA_PIECES, MaxPieces)
          /\ units = <<>>
       \/ /\ kind = "units"
          /\ units \in UnitSeqs
          /\ text = RenderUnits(units)
    /\ PureIdle
    /\ TabIdle

Segment ==
    /\ kind \in {"pieces", "units"}
    /\ ~segDone
    /\ pairs' = extract_qa_pairs_from_llm_result(text)
    /\ segDone' = TRUE
    /\ UNCHANGED <<kind, text, units, sanPc, once, twice, singleDone, single,
                   tabVars>>

ExtractSingle ==
    /\ kind \in {"pieces", "units"}
    /\ ~singleDone
    /\ single' = split_text_to_qa_pairs(text)
    /\ singleDone' = TRUE
    /\ UNCHANGED <<kind, text, units, sanPc, once, twice, segDone, pairs,
                   tabVars>>

NextParse == Segment \/ ExtractSingle

SpecParse == InitParse /\ [][NextParse]_vars


(***************************************************************************)
(* Assisted extraction: the "start extraction" button of qa_split_tab.     *)
(* The response stream is the generation collaborator's: it yields chunks  *)
(* and then ends, normally or by raising.                                  *)
(***************************************************************************)
\* chunks a response may be cut into: whole lines, pieces that cut a unit
\* inside its markers, and a reasoning block cut in two
CHUNKS ==
    {<<QMARK, ":", "x", NL>>, <<AMARK, ":", "y", NL>>, <<QMARK>>,
     <<":", "x", NL, AMARK>>, <<":", "y">>, THINK_OPEN,
     <<"r">> \o THINK_CLOSE}

HasKey(k) == k \in DOMAIN session

\* what col2 renders from the session once the handler is over
ResultView ==
    IF ~HasKey("qa_pairs") THEN "info"
    ELSE IF session["qa_pairs"] = <<>>
         THEN IF HasKey("raw_llm_output") THEN "no_pairs_raw_output"
              ELSE "no_pairs"
         ELSE "table"

InitTab ==
    /\ kind = "tab"
    /\ text = <<>>
    /\ units = <<>>
    /\ PureIdle
    /\ TabIdle

\* the button pressed with the placeholder text or blank text: a warning
ClickEmpty ==
    /\ kind = "tab"
    /\ pc = "idle"
    /\ message' = "warning"
    /\ placeholder' = <<>>
    /\ UNCHANGED <<kind, pureVars, genCalls, earlierResult, pc, session,
                   stream, chunks, segCalls>>

\* ClickExtract without the deletion of the earlier result
ClickExtract_KeepsResult ==
    /\ kind = "tab"
    /\ pc = "idle"
    /\ pc' = "calling"
    /\ stream' = "none"
    /\ chunks' = <<>>
    /\ placeholder' = <<>>
    /\ message' = "none"
    /\ segCalls' = <<>>
    /\ genCalls' = 0
    /\ earlierResult' = (earlierResult \/ HasKey("qa_pairs"))
    /\ UNCHANGED <<kind, pureVars, session>>

\* the button pressed with a text: the earlier result is deleted from the
\* session and the handler enters the try block
ClickExtract ==
    /\ kind = "tab"
    /\ pc = "idle"
    /\ session' = NoSession
    /\ pc' = "calling"
    /\ stream' = "none"
    /\ chunks' = <<>>
    /\ placeholder' = <<>>
    /\ message' = "none"
    /\ segCalls' = <<>>
    /\ genCalls' = 0
    /\ earlierResult' = (earlierResult \/ HasKey("qa_pairs"))
    /\ UNCHANGED <<kind, pureVars>>

\* get_qa_pairs_from_text_stream returns the response stream of chain.stream:
\* the one generation call of the handler
CallReturns ==
    /\ pc = "calling"
    /\ stream' = "open"
    /\ genCalls' = genCalls + 1
    /\ pc' = "streaming"
    /\ UNCHANGED <<kind, pureVars, earlierResult, session, chunks,
                   placeholder, message, segCalls>>

\* get_qa_pairs_from_text_stream raises while it builds the prompt, before
\* chain.stream: the except branch reports it
CallFails ==
    /\ pc = "calling"
    /\ stream' = "refused"
    /\ message' = "error"
    /\ pc' = "idle"
    /\ UNCHANGED <<kind, pureVars, genCalls, earlierResult, session, chunks,
                   placeholder, segCalls>>

\* ReceiveChunk putting the new chunk in front of the text
ReceiveChunk_Prepends(c) ==
    /\ pc = "streaming"
    /\ Len(chunks) < MaxChunks
    /\ chunks' = Append(chunks, c)
    /\ placeholder' = c \o placeholder
    /\ UNCHANGED <<kind, pureVars, genCalls, earlierResult, pc, session,
                   stream, message, segCalls>>

\* ReceiveChunk segmenting the text received so far at every chunk
ReceiveChunk_Segments(c) ==
    /\ pc = "streaming"
    /\ Len(chunks) < MaxChunks
    /\ chunks' = Append(chunks, c)
    /\ placeholder' = placeholder \o c
    /\ segCalls' = <<[arg |-> placeholder \o c, stream |-> "open"]>>
    /\ UNCHANGED <<kind, pureVars, genCalls, earlierResult, pc, session,
                   stream, message>>

\* write_stream takes the next chunk of the stream and shows the text so far
ReceiveChunk(c) ==
    /\ pc = "streaming"
    /\ Len(chunks) < MaxChunks
    /\ chunks' = Append(chunks, c)
    /\ placeholder' = placeholder \o c
    /\ UNCHANGED <<kind, pureVars, genCalls, earlierResult, pc, session,
                   stream, message, segCalls>>

\* StreamEnd storing the sanitized text as raw_llm_output
StreamEnd_StoresSanitized ==
    /\ pc = "streaming"
    /\ LET full_response == placeholder
           qa_pairs == extract_qa_pairs_from_llm_result(full_response)
       IN  /\ segCalls' = Append(segCalls,
                                 [arg |-> full_response, stream |-> "exhausted"])
           /\ session' = [k \in {"qa_pairs", "raw_llm_output"} |->
                             IF k = "qa_pairs" THEN qa_pairs
                             ELSE sanitize(full_response)]
    /\ stream' = "exhausted"
    /\ placeholder' = <<>>
    /\ pc' = "idle"
    /\ UNCHANGED <<kind, pureVars, genCalls, earlierResult, chunks, message>>

\* the stream is exhausted: write_stream returns the whole text, which is
\* segmented and stored with its pairs, and the script is rerun
StreamEnd ==
    /\ pc = "streaming"
    /\ LET full_response == placeholder
           qa_pairs == extract_qa_pairs_from_llm_result(full_response)
       IN  /\ segCalls' = Append(segCalls,
                                 [arg |-> full_response, stream |-> "exhausted"])
           /\ session' = [k \in {"qa_pairs", "raw_llm_output"} |->
                             IF k = "qa_pairs" THEN qa_pairs ELSE full_response]
    /\ stream' = "exhausted"
    /\ placeholder' = <<>>
    /\ pc' = "idle"
    /\ UNCHANGED <<kind, pureVars, genCalls, earlierResult, chunks, message>>

\* StreamError with an except branch that segments the text received so far
StreamError_SegmentsPartial ==
    /\ pc = "streaming"
    /\ segCalls' = Append(segCalls, [arg |-> placeholder, stream |-> "failed"])
    /\ session' = [k \in {"qa_pairs", "raw_llm_output"} |->
                      IF k = "qa_pairs"
                      THEN extract_qa_pairs_from_llm_result(placeholder)
                      ELSE placeholder]
    /\ stream' = "failed"
    /\ message' = "error"
    /\ pc' = "idle"
    /\ UNCHANGED <<kind, pureVars, genCalls, earlierResult, chunks,
                   placeholder>>

\* StreamError with an except branch that stores an empty pair list
StreamError_StoresEmpty ==
    /\ pc = "streaming"
    /\ session' = [k \in {"qa_pairs"} |-> <<>>]
    /\ stream' = "failed"
    /\ message' = "error"
    /\ pc' = "idle"
    /\ UNCHANGED <<kind, pureVars, genCalls, earlierResult, chunks,
                   placeholder, segCalls>>

\* StreamError with an except branch that calls the generation again
StreamError_Retries ==
    /\ pc = "streaming"
    /\ stream' = "open"
    /\ genCalls' = genCalls + 1
    /\ chunks' = <<>>
    /\ placeholder' = <<>>
    /\ UNCHANGED <<kind, pureVars, earlierResult, pc, session, message,
                   segCalls>>

\* the stream raises inside write_stream: the except branch reports it; the
\* text received so far is bound to no variable of the handler
StreamError ==
    /\ pc = "streaming"
    /\ stream' = "failed"
    /\ message' = "error"
    /\ pc' = "idle"
    /\ UNCHANGED <<kind, pureVars, genCalls, earlierResult, session, chunks,
                   placeholder, segCalls>>

Next ==
    \/ ClickEmpty
    \/ ClickExtract
    \/ CallReturns
    \/ CallFails
    \/ \E c \in CHUNKS : ReceiveChunk(c)
    \/ StreamEnd
    \/ StreamError

Spec == InitTab /\ [][Next]_vars

(***************************************************************************)
(* The command line of qwen_llm.py (without --test): one generation call,  *)
(* and the single-pair extractor on the input when the call raises.        *)
(***************************************************************************)
\* values of --text: the default's shape (two colon units on one line), a
\* text without markers, the empty text
CLI_TEXTS ==
    {<<QMARK, ":", "x", AMARK, ":", "y", QMARK, ":", "x", AMARK, ":", "y">>,
     <<"x">>, <<>>}

\* what the model may answer
CLI_RESULTS == PieceTexts(CHUNKS, 2)

InitCli ==
    /\ kind = "cli"
    /\ text \in CLI_TEXTS
    /\ units = <<>>
    /\ PureIdle
    /\ pc = "main"
    /\ session = NoSession
    /\ stream = "none"
    /\ chunks = <<>>
    /\ placeholder = <<>>
    /\ message = "none"
    /\ segCalls = <<>>
    /\ genCalls = 0
    /\ earlierResult = FALSE

\* process_text_with_qwen returns the model's answer, which is segmented
CliGenerationReturns(llm_result) ==
    /\ kind = "cli"
    /\ pc = "main"
    /\ genCalls' = genCalls + 1
    /\ pairs' = extract_qa_pairs_from_llm_result(llm_result)
    /\ segDone' = TRUE
    /\ pc' = "done"
    /\ UNCHANGED <<kind, text, units, sanPc, once, twice, singleDone, single,
                   session, stream, chunks, placeholder, message, segCalls,
                   earlierResult>>

\* chain.invoke raises: the except branch prints the error and the result of
\* the single-pair extractor on the input text
CliGenerationFails ==
    /\ kind = "cli"
    /\ pc = "main"
    /\ genCalls' = genCalls + 1
    /\ message' = "error"
    /\ single' = split_text_to_qa_pairs(text)
    /\ singleDone' = TRUE
    /\ pc' = "done"
    /\ UNCHANGED <<kind, text, units, sanPc, once, twice, segDone, pairs,
                   session, stream, chunks, placeholder, segCalls,
                   earlierResult>>

\* --type names no prompt: process_text_with_qwen raises before any call, and
\* the except branch runs as above
CliTypeRejected ==
    /\ kind = "cli"
    /\ pc = "main"
    /\ message' = "error"
    /\ single' = split_text_to_qa_pairs(text)
    /\ singleDone' = TRUE
    /\ pc' = "done"
    /\ UNCHANGED <<kind, text, units, sanPc, once, twice, segDone, pairs,
                   session, stream, chunks, placeholder, segCalls, genCalls,
                   earlierResult>>

InitRequest == InitTab \/ InitCli

NextRequest ==
    \/ Next
    \/ \E llm_result \in CLI_RESULTS : CliGenerationReturns(llm_result)
    \/ CliGenerationFails
    \/ CliTypeRejected

\* an extraction request, in the tab or on the command line
SpecRequest == InitRequest /\ [][NextRequest]_vars

(***************************************************************************)
(* Properties of the sanitizer and of the two parsers.                     *)
(***************************************************************************)
Chars(s) == {s[i] : i \in 1..Len(s)}

\* position of the first c in t, 0 when there is none
FirstPos(t, c) ==
    IF c \in Chars(t) THEN Min({i \in 1..Len(t) : t[i] = c}) ELSE 0

\* the pairs a unit-built text is made of
PairsOf(us) == [n \in 1..Len(us) |-> [question |-> us[n].q, answer |-> us[n].a]]

OneLine(body) == NL \notin Chars(body)
PlainBody(body) == Chars(body) \cap {NL, QMARK, AMARK, ":", "FC"} = {}

\* C1: sanitizing the sanitized text changes nothing:
\* sanitize(sanitize(t)) = sanitize(t) for every text t.
C1_SanitizeIdempotent == sanPc = "twice" => twice = once

\* C2 as stated: a text of N units with one-line bodies, the markers followed
\* by a colon or by nothing, is segmented into exactly the N pairs, in order.
C2_OptionalColonUnits ==
    (/\ kind = "units"
     /\ segDone
     /\ \A n \in 1..Len(units) : OneLine(units[n].q) /\ OneLine(units[n].a))
    => pairs = PairsOf(units)

\* C2 amended: a text of N units with non-empty one-line bodies whose markers
\* are each followed by a half- or full-width colon is segmented into exactly
\* the N pairs (q_i, a_i), in order; units whose markers are followed by no
\* colon and whose bodies hold no marker are not recognised, and give no pair.
C2_ColonUnits ==
    (kind = "units" /\ segDone) =>
        /\ (\A n \in 1..Len(units) :
               /\ units[n].tail # <<>>
               /\ OneLine(units[n].q)
               /\ OneLine(units[n].a))
           => pairs = PairsOf(units)
        /\ (\A n \in 1..Len(units) :
               /\ units[n].tail = <<>>
               /\ PlainBody(units[n].q)
               /\ PlainBody(units[n].a))
           => pairs = <<>>

C2_Witness ==
    /\ kind = "units"
    /\ segDone
    /\ Len(units) = 2
    /\ \A n \in 1..2 : units[n].tail # <<>> /\ units[n].q = <<"x">> /\ units[n].a = <<"y">>
    /\ Len(pairs) = 2
    /\ text = <<QMARK, ":", "x", NL, AMARK, ":", "y", NL,
                QMARK, "FC", "x", NL, AMARK, "FC", "y">>

\* the part of an answer body before its first line that starts with the
\* question-marker
BeforeLineStartQ(body) ==
    LET cut == FindFrom(body, <<NL, QMARK>>, 1)
    IN  IF cut = 0 THEN body ELSE SubSeq(body, 1, cut - 1)

\* C3 as stated: the answer of a unit runs up to the next question-marker at
\* the start of a line, or to the end of the text.
C3_AnswerEndsAtLineStartMarker ==
    (/\ kind = "units"
     /\ segDone
     /\ Len(units) = 1
     /\ units[1].tail # <<>>
     /\ OneLine(units[1].q))
    => /\ Len(pairs) = 1
       /\ pairs[1].answer = BeforeLineStartQ(units[1].a)

\* C3 amended: the answer of a unit runs across newlines up to the next line
\* that starts with the question-marker followed by a colon, or to the end of
\* the text; a question-marker or answer-marker inside the answer body, mid-
\* line or at a line start without making such a line, neither splits nor
\* shortens the answer.
C3_AnswerKeepsEmbeddedMarkers ==
    (/\ kind = "units"
     /\ segDone
     /\ \A n \in 1..Len(units) : units[n].tail # <<>> /\ OneLine(units[n].q))
    => pairs = PairsOf(units)

C3_Witness ==
    /\ kind = "units"
    /\ segDone
    /\ Len(units) = 1
    /\ units[1].tail = <<":">>
    /\ units[1].a = <<"y", QMARK, ":", "z">>
    /\ Len(pairs) = 1
    /\ pairs[1].answer = <<"y", QMARK, ":", "z">>

\* C4 as stated: no question returned by either parser contains the
\* answer-marker.
C4_NoAnswerMarkerInQuestion ==
    /\ segDone => \A n \in 1..Len(pairs) : AMARK \notin Chars(pairs[n].question)
    /\ singleDone => \A n \in 1..Len(single) : AMARK \notin Chars(single[n].question)

\* C4 amended: no question returned by the single-pair extractor contains the
\* answer-marker; no question returned by the multi-pair segmenter contains a
\* newline followed by the answer-marker and a colon, though it may contain
\* the answer-marker elsewhere.
C4_QuestionMarkerFree ==
    /\ singleDone => \A n \in 1..Len(single) : AMARK \notin Chars(single[n].question)
    /\ segDone => \A n \in 1..Len(pairs) : \A c \in COLONS :
                      ~Contains(pairs[n].question, <<NL, AMARK, c>>)

C4_Witness ==
    /\ segDone
    /\ singleDone
    /\ Len(single) = 1
    /\ Len(pairs) = 1
    /\ AMARK \in Chars(pairs[1].question)

\* C5: when the first answer-marker lies after the first question-marker, the
\* single-pair extractor returns at most one pair; its question is the trimmed
\* text between the two first markers, its answer the trimmed text from after
\* the first answer-marker to the end, later markers included.
C5_SinglePairSpans ==
    LET q == FirstPos(text, QMARK)
        a == FirstPos(text, AMARK)
    IN  (singleDone /\ q # 0 /\ a > q) =>
            /\ Len(single) <= 1
            /\ \A n \in 1..Len(single) :
                  /\ single[n].question = Strip(SubSeq(text, q + 1, a - 1), TRIM_SET)
                  /\ single[n].answer = Strip(Tail_(text, a + 1), TRIM_SET)
            /\ text = <<QMARK, "x", NL, AMARK, "y", NL, QMARK, "x", NL, AMARK, "y">>
               => single = <<[question |-> <<"x">>,
                              answer |-> <<"y", NL, QMARK, "x", NL, AMARK, "y">>]>>

C5_Witness ==
    /\ singleDone
    /\ text = <<QMARK, "x", NL, AMARK, "y", NL, QMARK, "x", NL, AMARK, "y">>
    /\ Len(single) = 1
    /\ QMARK \in Chars(single[1].answer)
    /\ AMARK \in Chars(single[1].answer)

\* every character of t from position lo to position hi is in the trim set
OnlyTrimChars(t, lo, hi) == \A i \in lo..hi : t[i] \in TRIM_SET

\* C6: the single-pair extractor returns no pair exactly when a marker is
\* missing, the first answer-marker is not after the first question-marker,
\* or a span is empty after trimming; otherwise it returns exactly one pair
\* with both fields non-empty.
C6_SinglePairRejects ==
    LET q == FirstPos(text, QMARK)
        a == FirstPos(text, AMARK)
        rejected == \/ q = 0
                    \/ a = 0
                    \/ a <= q
                    \/ OnlyTrimChars(text, q + 1, a - 1)
                    \/ OnlyTrimChars(text, a + 1, Len(text))
    IN  singleDone =>
            /\ rejected <=> single = <<>>
            /\ ~rejected =>
                  /\ Len(single) = 1
                  /\ single[1].question # <<>>
                  /\ single[1].answer # <<>>

C6_Witness ==
    /\ singleDone
    /\ FirstPos(text, QMARK) # 0
    /\ FirstPos(text, AMARK) > FirstPos(text, QMARK) + 1
    /\ OnlyTrimChars(text, FirstPos(text, QMARK) + 1, FirstPos(text, AMARK) - 1)
    /\ ~OnlyTrimChars(text, FirstPos(text, AMARK) + 1, Len(text))
    /\ single = <<>>


(***************************************************************************)
(* Properties of the assisted extraction.                                  *)
(***************************************************************************)
\* the attempt is over and its stream ended normally
Completed == pc = "idle" /\ stream = "exhausted"

\* C7: however the response is cut into chunks, after a normal end of the
\* stream the stored text is the chunks joined in delivery order and the
\* stored pairs are those of segmenting that whole text in one call.
C7_ChunkBoundariesMeaningless ==
    Completed =>
        /\ HasKey("qa_pairs")
        /\ HasKey("raw_llm_output")
        /\ session["raw_llm_output"] = Concat(chunks)
        /\ session["qa_pairs"] = extract_qa_pairs_from_llm_result(Concat(chunks))

C7_Witness ==
    /\ Completed
    /\ chunks = <<<<QMARK>>, <<":", "x", NL, AMARK>>, <<":", "y">>>>
    /\ session["qa_pairs"] = <<[question |-> <<"x">>, answer |-> <<"y">>]>>

C9_SegmentOnlyAfterCompletion ==
    /\ Len(segCalls) <= 1
    /\ \A n \in 1..Len(segCalls) :
          /\ segCalls[n].stream = "exhausted"
          /\ segCalls[n].arg = Concat(chunks)
    /\ stream # "exhausted" => segCalls = <<>>
    /\ Completed => Len(segCalls) = 1

C9_Witness ==
    /\ Completed
    /\ Len(chunks) >= 2
    /\ segCalls = <<[arg |-> Concat(chunks), stream |-> "exhausted"]>>

\* C10: an attempt whose generation succeeded and matched nothing ends with
\* an empty pair list stored with its raw output; an attempt whose call or
\* stream raised ends with an error and no pair list stored; the two end
\* states differ.
C10_FailureIsNotEmptyResult ==
    pc = "idle" =>
        /\ stream \in {"refused", "failed"} =>
              /\ ~HasKey("qa_pairs")
              /\ message # "none"
              /\ ResultView = "info"
        /\ stream = "exhausted" =>
              /\ HasKey("qa_pairs")
              /\ HasKey("raw_llm_output")
              /\ session["raw_llm_output"] = Concat(chunks)
              /\ ResultView \in {"no_pairs_raw_output", "table"}
              /\ extract_qa_pairs_from_llm_result(Concat(chunks)) = <<>>
                 => ResultView = "no_pairs_raw_output"

C10_Witness ==
    /\ Completed
    /\ chunks # <<>>
    /\ session["qa_pairs"] = <<>>
    /\ session["raw_llm_output"] = Concat(chunks)


\* C11 as stated: the stored raw output is the sanitized response: it equals
\* sanitize(full response), holds no reasoning block, and segmenting it gives
\* the stored pairs.
C11_RawOutputSanitized ==
    Completed =>
        /\ session["raw_llm_output"] = sanitize(Concat(chunks))
        /\ remove_think_blocks(session["raw_llm_output"]) = session["raw_llm_output"]
        /\ extract_qa_pairs_from_llm_result(session["raw_llm_output"])
           = session["qa_pairs"]

\* C11 amended: the stored raw output is the full response as it was
\* streamed, not sanitized: reasoning blocks and blank lines are still in it;
\* sanitizing and segmenting the stored raw output gives the stored pairs.
C11_RawOutputVerbatim ==
    Completed =>
        /\ HasKey("raw_llm_output")
        /\ Len(session["raw_llm_output"]) = Len(Concat(chunks))
        /\ \A i \in 1..Len(Concat(chunks)) :
              session["raw_llm_output"][i] = Concat(chunks)[i]
        /\ StripPairs(FindAllQA(sanitize(session["raw_llm_output"]), 1))
           = session["qa_pairs"]

C11_Witness ==
    /\ Completed
    /\ Contains(session["raw_llm_output"], THINK_OPEN \o <<"r">> \o THINK_CLOSE)
    /\ session["raw_llm_output"] # sanitize(session["raw_llm_output"])
    /\ session["qa_pairs"] = <<[question |-> <<"x">>, answer |-> <<"y">>]>>

\* C13 as stated: the question of a unit ends at the first newline: no
\* returned question contains a newline.
C13_QuestionIsOneLine ==
    segDone => \A n \in 1..Len(pairs) : NL \notin Chars(pairs[n].question)

\* C13 amended: the question of a unit is the text from the question-marker
\* and its colon up to the first newline that is followed by the answer-
\* marker and a colon: it may hold newlines and later lines that begin with
\* the question-marker, so a question line with no answer line directly
\* after it is merged into the question of the following unit.
C13_QuestionRunsToAnswerLine ==
    /\ (/\ kind = "units"
        /\ segDone
        /\ \A n \in 1..Len(units) : units[n].tail # <<>>)
       => /\ Len(pairs) = Len(units)
          /\ \A n \in 1..Len(units) : pairs[n].question = units[n].q
    /\ (segDone /\ text = <<QMARK, ":", "x", NL, QMARK, ":", "y", NL, AMARK, ":", "y">>)
       => pairs = <<[question |-> <<"x", NL, QMARK, ":", "y">>, answer |-> <<"y">>]>>

C13_Witness ==
    /\ kind = "units"
    /\ segDone
    /\ text = <<QMARK, ":", "x", NL, QMARK, ":", "y", NL, AMARK, ":", "y">>
    /\ Len(pairs) = 1
    /\ NL \in Chars(pairs[1].question)


\* C12: within one request at most one generation call is issued, and after
\* the call or its stream has failed none follows: the tab reports the error,
\* the command line reports it and runs only the single-pair extractor on
\* the input.
C12_NoRetry ==
    /\ genCalls <= 1
    /\ (kind = "tab" /\ pc = "idle" /\ stream = "failed") =>
          /\ genCalls = 1
          /\ message # "none"
          /\ segCalls = <<>>
    /\ (kind = "cli" /\ pc = "done" /\ message = "error") =>
          /\ ~segDone
          /\ singleDone
          /\ single = split_text_to_qa_pairs(text)

C12_Witness ==
    /\ kind = "cli"
    /\ pc = "done"
    /\ message = "error"
    /\ genCalls = 1
    /\ Len(single) = 1

\* C14: the session holds neither qa_pairs nor raw_llm_output, or both, with
\* qa_pairs the sanitize-and-segment result of raw_llm_output; what is stored
\* comes from the most recent attempt: while an attempt runs and after it
\* has failed, nothing of an earlier attempt is stored.
C14_SessionFromLastAttempt ==
    /\ HasKey("qa_pairs") <=> HasKey("raw_llm_output")
    /\ HasKey("qa_pairs") =>
          /\ session["qa_pairs"]
             = extract_qa_pairs_from_llm_result(session["raw_llm_output"])
          /\ Completed
          /\ session["raw_llm_output"] = Concat(chunks)
    /\ (pc # "idle" \/ stream \in {"refused", "failed"}) => session = NoSession

C14_Witness ==
    /\ earlierResult
    /\ pc = "idle"
    /\ stream = "failed"
    /\ chunks # <<>>
    /\ session = NoSession

=============================================================================
